---- MODULE Spec2Model ----
(***************************************************************************)
(* Credential lifecycle of server/controllers/authController.js: the       *)
(* OAuth2 callback, the token refresh endpoint and the spreadsheet         *)
(* handlers, all of which share one oauth2Client and one User collection.  *)
(* An `await` of I/O (the database, the identity provider, the sheets API) *)
(* is a point where other requests may run; the code between two such      *)
(* awaits is one atomic step. `await setUserCredentials(...)` resumes in   *)
(* the turn in which findById resolved, so it belongs to that step.        *)
(***************************************************************************)
EXTENDS Integers, Sequences, FiniteSets, TLC

VARIABLES
    store,          \* the User collection: _id -> record
    oauth2Client,   \* the credentials of the one shared oauth2Client
    reqs,           \* per slot: the request handled there, or the last one finished
    sessions,       \* the user ids of the session cookies issued so far
    grants,         \* the token grants of the identity provider, in order
    now,            \* the clock
    nextId,         \* the next ObjectId of `new User`
    arrived         \* how many requests of each family have arrived

vars == <<store, oauth2Client, reqs, sessions, grants, now, nextId, arrived>>

\* ---------------------------------------------------------------- bounds
MaxAuthReqs == 2
MaxSheetReqs == 2
MaxInFlight == 2
MaxTime == 3
TokenTTL == 1

\* ------------------------------------------------------------ JS values
\* null / undefined (a missing field, an omitted token, an omitted expiry)
Null == 0
\* the empty string "", the other falsy value a request body can carry
EmptyString == -1

\* `!x` of JavaScript on the values above: null, undefined and "" are falsy
Falsy(x) == x \in {Null, EmptyString}

\* tokens.expiry_date ? new Date(tokens.expiry_date) : null
ExpiryToDate(e) == IF ~Falsy(e) THEN e ELSE Null

\* the Google accounts that sign in (data.id of the profile)
GoogleIds == {1, 2}

Slots == 1..MaxInFlight

NoTokens == [access_token |-> Null, refresh_token |-> Null, expiry_date |-> Null]

NoDoc == [id |-> Null, isNew |-> FALSE, googleId |-> Null, accessToken |-> Null,
          refreshToken |-> Null, tokenExpiry |-> Null, refreshSet |-> FALSE]

\* ------------------------------------------------------ identity provider
\* Every successful code exchange or refresh is a new grant; the access
\* token of grant n is n, and so is the refresh token when one is issued.
NewGrant == Len(grants) + 1

Grant(via, rt, e) == [via |-> via, refresh_token |-> rt, expiry_date |-> e]

IssuedRefreshTokens == {grants[i].refresh_token : i \in DOMAIN grants} \ {Null}

\* The expiry the provider may return: absent, or TokenTTL from now.
ExpiryChoices == {Null, now + TokenTTL}

\* a stored expiry that lies before the current time
Expired(tokenExpiry) == tokenExpiry # Null /\ tokenExpiry < now

\* ------------------------------------------------------ credential store
\* User.findOne({ googleId }): the id of a matching record, or Null
FindOneByGoogleId(g) ==
    IF \E id \in DOMAIN store : store[id].googleId = g
    THEN CHOOSE id \in DOMAIN store : store[id].googleId = g
    ELSE Null

\* User.findOne({ refreshToken })
FindOneByRefreshToken(t) ==
    IF \E id \in DOMAIN store : store[id].refreshToken = t
    THEN CHOOSE id \in DOMAIN store : store[id].refreshToken = t
    ELSE Null

\* The User collection keeps googleId unique: inserting a second record
\* with a googleId already present is rejected (duplicate key).
UniqueIndexAllows(doc) ==
    \A id \in DOMAIN store : store[id].googleId # doc.googleId

Record(doc) == [googleId |-> doc.googleId, accessToken |-> doc.accessToken,
                refreshToken |-> doc.refreshToken, tokenExpiry |-> doc.tokenExpiry]

\* user.save(): a new document is inserted; an existing one has the paths
\* the handler assigned written back.
Saved(doc) ==
    IF doc.isNew
    THEN (doc.id :> Record(doc)) @@ store
    ELSE [store EXCEPT ![doc.id] =
            [@ EXCEPT !.accessToken = doc.accessToken,
                      !.tokenExpiry = doc.tokenExpiry,
                      !.refreshToken = IF doc.refreshSet THEN doc.refreshToken ELSE @]]

\* the document a find returned, loaded from the store
Loaded(user) ==
    [id |-> user, isNew |-> FALSE, googleId |-> store[user].googleId,
     accessToken |-> store[user].accessToken,
     refreshToken |-> store[user].refreshToken,
     tokenExpiry |-> store[user].tokenExpiry, refreshSet |-> FALSE]

\* ---------------------------------------------------------------- requests
NewReq(kind, arg) ==
    [kind |-> kind, pc |-> "start", arg |-> arg, tokens |-> NoTokens, data |-> Null,
     doc |-> NoDoc, events |-> <<>>, calls |-> <<>>, status |-> Null, cookie |-> Null,
     body |-> NoTokens]

Idle == [NewReq("none", Null) EXCEPT !.pc = "idle"]

AuthKinds == {"googleCallback", "refreshToken"}

SheetKinds == {"createSpreadSheet", "deleteSheet"}

FreeSlots == {s \in Slots : reqs[s].pc \in {"idle", "done", "error"}}

\* the slot the next request is handled in: the lowest free one
ArrivalSlot == CHOOSE f \in FreeSlots : \A g \in FreeSlots : f <= g

\* a request arrives and its handler is invoked
Arrive(req) ==
    /\ FreeSlots # {}
    /\ reqs' = [reqs EXCEPT ![ArrivalSlot] = req]
    /\ IF req.kind \in AuthKinds
       THEN /\ arrived.auth < MaxAuthReqs
            /\ arrived' = [arrived EXCEPT !.auth = @ + 1]
       ELSE /\ arrived.sheet < MaxSheetReqs
            /\ arrived' = [arrived EXCEPT !.sheet = @ + 1]

Log(req, evs) == [req EXCEPT !.events = @ \o evs]

\* the handler has returned: its local variables are gone
Returned(req, pc) == [req EXCEPT !.pc = pc, !.tokens = NoTokens, !.doc = NoDoc]

\* catch (error) { next(error) }
Failed(req) == Returned(Log(req, <<"next">>), "error")

\* a response with the given status ends the handler
Responded(req, status, evs) == [Returned(Log(req, evs), "done") EXCEPT !.status = status]

\* oauth2Client.setCredentials({ access_token, refresh_token })
SetCredentials(access, refresh) ==
    [access_token |-> access, refresh_token |-> refresh]

\* An external API call issued now through the shared client (auth:
\* oauth2Client) while it holds the credentials client, on behalf of a
\* request whose user document is doc: whether it carries that user's token
\* pair, and whether that user's token had expired
ApiCall(client, doc) ==
    [own |-> /\ client.access_token = doc.accessToken
             /\ client.refresh_token = doc.refreshToken,
     expired |-> Expired(doc.tokenExpiry)]

Init ==
    /\ store = <<>>
    /\ oauth2Client = SetCredentials(Null, Null)
    /\ reqs = [s \in Slots |-> Idle]
    /\ sessions = {}
    /\ grants = <<>>
    /\ now = 1
    /\ nextId = 1
    /\ arrived = [auth |-> 0, sheet |-> 0]

Tick ==
    /\ now < MaxTime
    /\ now' = now + 1
    /\ UNCHANGED <<store, oauth2Client, reqs, sessions, grants, nextId, arrived>>

\* ---------------------------------------------------------- googleCallback
\* GET /auth/callback?code=...: the code stands for the Google account g
\* that gave consent; the handler runs up to `await oauth2Client.getToken`.
GoogleCallbackStart(g) ==
    /\ Arrive([NewReq("googleCallback", g) EXCEPT !.pc = "getToken"])
    /\ UNCHANGED <<store, oauth2Client, sessions, grants, now, nextId>>

\* getToken resolved: setCredentials(tokens), then `await userinfo.get()`
AfterGetToken(req, ok, tokens) ==
    IF ok
    THEN [Log(req, <<"getToken", "setCredentials">>) EXCEPT
            !.tokens = tokens, !.pc = "userinfo"]
    ELSE Failed(req)

GcGetToken(r) ==
    /\ reqs[r].kind = "googleCallback" /\ reqs[r].pc = "getToken"
    /\ \/ \E rt \in {Null, NewGrant}, e \in ExpiryChoices :
            LET tokens == [access_token |-> NewGrant, refresh_token |-> rt,
                           expiry_date |-> e]
            IN /\ grants' = Append(grants, Grant("code", rt, e))
               /\ oauth2Client' = SetCredentials(tokens.access_token,
                                                 tokens.refresh_token)
               /\ reqs' = [reqs EXCEPT ![r] = AfterGetToken(@, TRUE, tokens)]
       \/ /\ reqs' = [reqs EXCEPT ![r] = AfterGetToken(@, FALSE, NoTokens)]
          /\ UNCHANGED <<grants, oauth2Client>>
    /\ UNCHANGED <<store, sessions, now, nextId, arrived>>

\* userinfo.get() resolved: data.id is the account of the code; then
\* `await User.findOne({ googleId: data.id })`
AfterUserinfo(req, ok) ==
    IF ok
    THEN [Log(req, <<"userinfo">>) EXCEPT !.data = req.arg, !.pc = "findOne"]
    ELSE Failed(req)

GcUserinfo(r) ==
    /\ reqs[r].kind = "googleCallback" /\ reqs[r].pc = "userinfo"
    /\ \E ok \in BOOLEAN : reqs' = [reqs EXCEPT ![r] = AfterUserinfo(@, ok)]
    /\ UNCHANGED <<store, oauth2Client, sessions, grants, now, nextId, arrived>>

\* new User({ googleId, ..., accessToken, refreshToken, tokenExpiry })
NewUser(data, tokens) ==
    [id |-> nextId, isNew |-> TRUE, googleId |-> data,
     accessToken |-> tokens.access_token,
     refreshToken |-> tokens.refresh_token,
     tokenExpiry |-> ExpiryToDate(tokens.expiry_date),
     refreshSet |-> TRUE]

\* AssignExisting with `user.refreshToken = tokens.refresh_token` unguarded
AssignExistingOverwriting(user, tokens) ==
    [Loaded(user) EXCEPT
       !.accessToken = tokens.access_token,
       !.refreshToken = tokens.refresh_token,
       !.refreshSet = TRUE,
       !.tokenExpiry = ExpiryToDate(tokens.expiry_date)]

\* AssignExisting with tokenExpiry assigned only when the provider sent one
AssignExistingKeepingExpiry(user, tokens) ==
    [Loaded(user) EXCEPT
       !.accessToken = tokens.access_token,
       !.refreshToken = IF ~Falsy(tokens.refresh_token)
                        THEN tokens.refresh_token ELSE @,
       !.refreshSet = ~Falsy(tokens.refresh_token),
       !.tokenExpiry = IF ~Falsy(tokens.expiry_date) THEN tokens.expiry_date ELSE @]

\* the else branch: the found document with its token fields assigned
AssignExisting(user, tokens) ==
    [Loaded(user) EXCEPT
       !.accessToken = tokens.access_token,
       !.refreshToken = IF ~Falsy(tokens.refresh_token)
                        THEN tokens.refresh_token ELSE @,
       !.refreshSet = ~Falsy(tokens.refresh_token),
       !.tokenExpiry = ExpiryToDate(tokens.expiry_date)]

\* FindOrCreate without the lookup's result: a new document every time
AlwaysCreate(user, data, tokens) == NewUser(data, tokens)

\* if (!user) { user = new User(...) } else { ... }
FindOrCreate(user, data, tokens) ==
    IF user = Null THEN NewUser(data, tokens) ELSE AssignExisting(user, tokens)

\* findOne resolved: the document is built or updated, then `await user.save()`
GcFind(r) ==
    /\ reqs[r].kind = "googleCallback" /\ reqs[r].pc = "findOne"
    /\ \/ LET user == FindOneByGoogleId(reqs[r].data)
              doc == FindOrCreate(user, reqs[r].data, reqs[r].tokens)
          IN /\ reqs' = [reqs EXCEPT ![r] =
                           [Log(@, <<"findOne">>) EXCEPT !.doc = doc, !.pc = "save"]]
             /\ nextId' = IF doc.isNew THEN nextId + 1 ELSE nextId
       \/ /\ reqs' = [reqs EXCEPT ![r] = Failed(@)]
          /\ UNCHANGED nextId
    /\ UNCHANGED <<store, oauth2Client, sessions, grants, now, arrived>>

\* AfterSave with the cookie and redirect issued whatever the save did
AfterSaveIgnoringFailure(req, ok) ==
    [Responded(req, 302, <<"save", "cookie", "redirect">>) EXCEPT
       !.cookie = req.doc.id]

\* save resolved: the JWT of { id: user._id, email } goes into the cookie
\* and the response redirects; a rejected save goes to next(error)
AfterSave(req, ok) ==
    IF ok
    THEN [Responded(req, 302, <<"save", "cookie", "redirect">>) EXCEPT
            !.cookie = req.doc.id]
    ELSE Failed(req)

GcSave(r) ==
    /\ reqs[r].kind = "googleCallback" /\ reqs[r].pc = "save"
    /\ \/ /\ reqs[r].doc.isNew => UniqueIndexAllows(reqs[r].doc)
          /\ store' = Saved(reqs[r].doc)
          /\ reqs' = [reqs EXCEPT ![r] = AfterSave(@, TRUE)]
       \/ /\ reqs' = [reqs EXCEPT ![r] = AfterSave(@, FALSE)]
          /\ UNCHANGED store
    /\ sessions' = sessions \cup ({reqs'[r].cookie} \ {Null})
    /\ UNCHANGED <<oauth2Client, grants, now, nextId, arrived>>

\* ------------------------------------------------------------ refreshToken
\* MissingRefreshToken testing `refreshToken === undefined` only
MissingOnlyWhenAbsent(body) == body = Null

\* if (!refreshToken) return res.status(400)...
MissingRefreshToken(body) == Falsy(body)

\* POST /auth/refresh { refreshToken: body }: up to
\* `await oauth2Client.refreshAccessToken()`
RefreshTokenStart(body) ==
    LET req == NewReq("refreshToken", body)
    IN /\ IF MissingRefreshToken(body)
          THEN /\ Arrive(Responded(req, 400, <<"status400">>))
               /\ UNCHANGED oauth2Client
          ELSE /\ Arrive([Log(req, <<"setCredentials", "refreshAccessToken">>) EXCEPT
                            !.pc = "refreshAccessToken"])
               /\ oauth2Client' = SetCredentials(Null, body)
       /\ UNCHANGED <<store, sessions, grants, now, nextId>>

\* AfterRefreshAccessToken with the provider's rejection swallowed
AfterRefreshIgnoringRejection(req, ok, credentials) ==
    [req EXCEPT !.tokens = credentials, !.pc = "findOne"]

\* refreshAccessToken resolved or rejected; then `await User.findOne({refreshToken})`
AfterRefreshAccessToken(req, ok, credentials) ==
    IF ok
    THEN [req EXCEPT !.tokens = credentials, !.pc = "findOne"]
    ELSE Failed(req)

RtRefreshed(r) ==
    /\ reqs[r].kind = "refreshToken" /\ reqs[r].pc = "refreshAccessToken"
    /\ \/ /\ reqs[r].arg \in IssuedRefreshTokens
          /\ \E e \in ExpiryChoices :
               LET credentials == [access_token |-> NewGrant,
                                   refresh_token |-> reqs[r].arg, expiry_date |-> e]
               IN /\ grants' = Append(grants, Grant("refresh", Null, e))
                  /\ reqs' = [reqs EXCEPT ![r] =
                                AfterRefreshAccessToken(@, TRUE, credentials)]
       \/ /\ reqs' = [reqs EXCEPT ![r] = AfterRefreshAccessToken(@, FALSE, NoTokens)]
          /\ UNCHANGED grants
    /\ UNCHANGED <<store, oauth2Client, sessions, now, nextId, arrived>>

\* if (user) { user.accessToken = ..., user.tokenExpiry = ... }: the
\* document in memory is assigned
RefreshedDoc(user, credentials) ==
    IF user # Null
    THEN [Loaded(user) EXCEPT !.accessToken = credentials.access_token,
                              !.tokenExpiry = credentials.expiry_date]
    ELSE NoDoc

\* what the handler leaves in the collection: it never calls user.save(),
\* so the assigned document is dropped when the handler returns
StoreAfterRefresh(doc) == store

\* findOne resolved: res.json({ accessToken, expiryDate })
RtFind(r) ==
    /\ reqs[r].kind = "refreshToken" /\ reqs[r].pc = "findOne"
    /\ \/ LET doc == RefreshedDoc(FindOneByRefreshToken(reqs[r].arg), reqs[r].tokens)
          IN /\ reqs' = [reqs EXCEPT ![r] =
                           [Responded(@, 200, <<"findOne", "json">>) EXCEPT
                              !.body = reqs[r].tokens]]
             /\ store' = StoreAfterRefresh(doc)
       \/ /\ reqs' = [reqs EXCEPT ![r] = Failed(@)]
          /\ UNCHANGED store
    /\ UNCHANGED <<oauth2Client, sessions, grants, now, nextId, arrived>>

\* ------------------------------------------------------ spreadsheet handlers
\* a spreadsheet handler for the session of user id (req.user.id), up to
\* `await User.findById(userId)` in setUserCredentials
SheetStart(kind, id) ==
    /\ Arrive([NewReq(kind, id) EXCEPT !.pc = "findById"])
    /\ UNCHANGED <<store, oauth2Client, sessions, grants, now, nextId>>

\* findById resolved. setUserCredentials: throw if no user, else
\* oauth2Client.setCredentials({ access_token, refresh_token }); return user.
\* The handler then issues its API call (spreadsheets.create, or
\* spreadsheets.get in deleteSheet) and awaits it.
SetUserCredentials(r) ==
    /\ reqs[r].kind \in SheetKinds /\ reqs[r].pc = "findById"
    /\ \/ IF reqs[r].arg \in DOMAIN store
          THEN LET user == Loaded(reqs[r].arg)
                   client == SetCredentials(user.accessToken, user.refreshToken)
               IN /\ oauth2Client' = client
                  /\ reqs' = [reqs EXCEPT ![r] =
                                [Log(@, <<"findById", "setCredentials", "apiCall">>) EXCEPT
                                   !.doc = user,
                                   !.calls = Append(@, ApiCall(client, user)),
                                   !.pc = "api1"]]
          ELSE /\ reqs' = [reqs EXCEPT ![r] = Failed(@)]
               /\ UNCHANGED oauth2Client
       \/ /\ reqs' = [reqs EXCEPT ![r] = Failed(@)]
          /\ UNCHANGED oauth2Client
    /\ UNCHANGED <<store, sessions, grants, now, nextId, arrived>>

\* the first call resolved: createSpreadSheet responds; deleteSheet answers
\* 404 when the sheet is not in the spreadsheet, else issues batchUpdate
SheetReturn(r) ==
    /\ reqs[r].kind \in SheetKinds /\ reqs[r].pc = "api1"
    /\ \/ /\ reqs[r].kind = "createSpreadSheet"
          /\ reqs' = [reqs EXCEPT ![r] = Responded(@, 200, <<"json">>)]
       \/ /\ reqs[r].kind = "deleteSheet"
          /\ reqs' = [reqs EXCEPT ![r] = Responded(@, 404, <<"status404">>)]
       \/ /\ reqs[r].kind = "deleteSheet"
          /\ reqs' = [reqs EXCEPT ![r] =
                        [Log(@, <<"apiCall">>) EXCEPT
                           !.calls = Append(@, ApiCall(oauth2Client, reqs[r].doc)),
                           !.pc = "api2"]]
       \/ reqs' = [reqs EXCEPT ![r] = Failed(@)]
    /\ UNCHANGED <<store, oauth2Client, sessions, grants, now, nextId, arrived>>

\* deleteSheet's batchUpdate resolved
DeleteSheetReturn(r) ==
    /\ reqs[r].kind = "deleteSheet" /\ reqs[r].pc = "api2"
    /\ \/ reqs' = [reqs EXCEPT ![r] = Responded(@, 200, <<"json">>)]
       \/ reqs' = [reqs EXCEPT ![r] = Failed(@)]
    /\ UNCHANGED <<store, oauth2Client, sessions, grants, now, nextId, arrived>>

\* ------------------------------------------------------------ specification
\* the authentication endpoints
NextAuth ==
    \/ \E g \in GoogleIds : GoogleCallbackStart(g)
    \/ \E r \in Slots : GcGetToken(r)
    \/ \E r \in Slots : GcUserinfo(r)
    \/ \E r \in Slots : GcFind(r)
    \/ \E r \in Slots : GcSave(r)
    \/ \E body \in {Null, EmptyString} \cup IssuedRefreshTokens : RefreshTokenStart(body)
    \/ \E r \in Slots : RtRefreshed(r)
    \/ \E r \in Slots : RtFind(r)

\* the spreadsheet endpoints
NextSheets ==
    \/ \E kind \in SheetKinds, id \in sessions : SheetStart(kind, id)
    \/ \E r \in Slots : SetUserCredentials(r)
    \/ \E r \in Slots : SheetReturn(r)
    \/ \E r \in Slots : DeleteSheetReturn(r)

Next == Tick \/ NextAuth \/ NextSheets

Spec == Init /\ [][Next]_vars

\* the authentication endpoints alone, at a fixed time
SpecAuth == Init /\ [][NextAuth]_vars

\* ------------------------------------------------------------------ claims
IsSheet(s) == reqs[s].kind \in SheetKinds

IsCallback(s) == reqs[s].kind = "googleCallback"

IsRefresh(s) == reqs[s].kind = "refreshToken"

Finished(s) == reqs[s].pc \in {"done", "error"}

\* the position in events of the i-th external API call of a handler
CallPosition(events, i) ==
    CHOOSE j \in DOMAIN events :
        /\ events[j] = "apiCall"
        /\ Cardinality({k \in 1..j : events[k] = "apiCall"}) = i

\* a refresh at the identity provider was attempted before the i-th call
RefreshAttemptedBefore(events, i) ==
    \E j \in 1..CallPosition(events, i) : events[j] = "refreshAccessToken"

RefreshAttempted(s) ==
    \E j \in DOMAIN reqs[s].events : reqs[s].events[j] = "refreshAccessToken"

\* C1: a spreadsheet handler never issues an external API call for a user
\* whose stored tokenExpiry lies before the current time, unless it attempted
\* a token refresh at the identity provider earlier in the same handler.
C1_RefreshBeforeExpiredCall ==
    \A s \in Slots : IsSheet(s) =>
        \A i \in DOMAIN reqs[s].calls :
            reqs[s].calls[i].expired => RefreshAttemptedBefore(reqs[s].events, i)

\* C2: a stored refreshToken that is non-null stays non-null in every step;
\* and a googleCallback for an existing record whose exchange returned no
\* refresh token saves the new accessToken and tokenExpiry and leaves the
\* stored refreshToken as it was.
C2_RefreshTokenNeverNulled ==
    [][/\ \A id \in DOMAIN store :
            store[id].refreshToken # Null =>
                id \in DOMAIN store' /\ store'[id].refreshToken # Null
       /\ \A s \in Slots :
            ( /\ IsCallback(s) /\ reqs[s].pc = "save" /\ reqs'[s].pc = "done"
              /\ ~reqs[s].doc.isNew
              /\ reqs[s].tokens.refresh_token = Null )
            => LET id == reqs[s].doc.id
               IN /\ store'[id].refreshToken = store[id].refreshToken
                  /\ store'[id].accessToken = reqs[s].tokens.access_token
                  /\ store'[id].tokenExpiry = ExpiryToDate(reqs[s].tokens.expiry_date)
      ]_vars

\* C2 witness: a record whose current access token comes from a login that
\* returned no refresh token, and whose refreshToken of the earlier login is kept.
C2_Witness ==
    \E id \in DOMAIN store :
        /\ store[id].refreshToken # Null
        /\ grants[store[id].accessToken].via = "code"
        /\ grants[store[id].accessToken].refresh_token = Null
        /\ store[id].refreshToken < store[id].accessToken

\* at most one record per googleId
UniqueGoogleId(st) ==
    \A a, b \in DOMAIN st : st[a].googleId = st[b].googleId => a = b

C4_RefreshPersistsNewToken ==
    [][\A s \in Slots :
         ( /\ IsRefresh(s) /\ reqs[s].pc = "findOne"
           /\ reqs'[s].pc = "done" /\ reqs'[s].status = 200 )
         => LET user == FindOneByRefreshToken(reqs[s].arg)
            IN user # Null =>
                 /\ store'[user].accessToken = reqs'[s].body.access_token
                 /\ store'[user].tokenExpiry = ExpiryToDate(reqs'[s].body.expiry_date)
      ]_vars

\* C5: a refresh request whose body carries no refreshToken (absent or
\* empty) is answered 400 in the step it arrives in, and that step calls
\* neither the identity provider nor setCredentials nor the store.
C5_MissingRefreshTokenRejected ==
    [][\A s \in Slots :
         ( /\ arrived' # arrived /\ FreeSlots # {} /\ s = ArrivalSlot
           /\ reqs'[s].kind = "refreshToken" /\ Falsy(reqs'[s].arg) )
         => /\ reqs'[s].pc = "done" /\ reqs'[s].status = 400
            /\ reqs'[s].events = <<"status400">>
            /\ oauth2Client' = oauth2Client
            /\ grants' = grants
            /\ store' = store
      ]_vars

\* C5 witness: a refresh request with the empty string as its token was answered.
C5_Witness ==
    \E s \in Slots :
        IsRefresh(s) /\ reqs[s].arg = EmptyString /\ Finished(s)

\* C6: when the provider rejects the refresh token (the awaited
\* refreshAccessToken ends without a grant), the handler ends in next(error)
\* with no response, and neither that step nor the request's arrival changes
\* any store record.
C6_RejectedRefreshLeavesStore ==
    [][\A s \in Slots :
         /\ ( /\ IsRefresh(s) /\ reqs[s].pc = "refreshAccessToken"
              /\ reqs'[s] # reqs[s] /\ grants' = grants )
            => /\ reqs'[s].pc = "error"
               /\ reqs'[s].status = Null
               /\ reqs'[s].body = NoTokens
               /\ reqs'[s].events[Len(reqs'[s].events)] = "next"
               /\ store' = store
         /\ ( /\ arrived' # arrived /\ FreeSlots # {} /\ s = ArrivalSlot
              /\ reqs'[s].kind = "refreshToken" )
            => store' = store
      ]_vars

\* C6 witness: a refresh with the stored refresh token of a record was
\* rejected by the provider (no refresh was ever granted).
C6_Witness ==
    \E s \in Slots :
        /\ IsRefresh(s) /\ reqs[s].pc = "error"
        /\ \A n \in DOMAIN grants : grants[n].via = "code"
        /\ \E id \in DOMAIN store : store[id].refreshToken = reqs[s].arg

\* C7: every stored record pairs an access token with the expiry of the same
\* grant (null when that grant carried none).
C7_TokenAndExpiryOfOneGrant ==
    \A id \in DOMAIN store :
        /\ store[id].accessToken \in DOMAIN grants
        /\ store[id].tokenExpiry =
             ExpiryToDate(grants[store[id].accessToken].expiry_date)

\* C7 witness: two logins of one user have both saved, the first grant with
\* an expiry and the second without, and the record holds the second grant.
C7_Witness ==
    \E id \in DOMAIN store :
        /\ \A s \in Slots : IsCallback(s) /\ reqs[s].pc = "done" /\ reqs[s].cookie = id
        /\ Len(grants) = 2
        /\ grants[1].expiry_date # Null /\ grants[2].expiry_date = Null
        /\ store[id].accessToken = 2

\* C8: two spreadsheet handlers of one user whose record had expired, in
\* flight together, have each attempted a refresh before their API call;
\* and once both have finished the stored accessToken is one a refresh returned.
C8_ConcurrentRefreshLastWriteWins ==
    \A s, t \in Slots :
        ( /\ s # t /\ IsSheet(s) /\ IsSheet(t) /\ reqs[s].arg = reqs[t].arg
          /\ reqs[s].calls # <<>> /\ reqs[t].calls # <<>>
          /\ reqs[s].calls[1].expired /\ reqs[t].calls[1].expired )
        => /\ (reqs[s].pc = "api1" /\ reqs[t].pc = "api1")
                => RefreshAttempted(s) /\ RefreshAttempted(t)
           /\ (Finished(s) /\ Finished(t))
                => \E n \in DOMAIN grants :
                     grants[n].via = "refresh" /\ store[reqs[s].arg].accessToken = n

\* C9: every external API call of a spreadsheet handler is issued while the
\* shared client holds the access/refresh token pair of the handler's own user.
C9_CallsCarryOwnCredentials ==
    \A s \in Slots : IsSheet(s) =>
        \A i \in DOMAIN reqs[s].calls : reqs[s].calls[i].own

CallbackSteps == <<"getToken", "setCredentials", "userinfo", "findOne", "save">>

\* C10: a googleCallback that set the cookie or redirected has completed the
\* exchange, the profile fetch and the save in that order and names a stored
\* record; one that failed went to next() with no cookie and no redirect;
\* every session id issued is the _id of a stored record.
C10_CookieOnlyAfterSave ==
    /\ sessions \subseteq DOMAIN store
    /\ \A s \in Slots : IsCallback(s) =>
        /\ (reqs[s].cookie # Null \/ reqs[s].status # Null)
              => /\ reqs[s].pc = "done" /\ reqs[s].status = 302
                 /\ reqs[s].events = CallbackSteps \o <<"cookie", "redirect">>
                 /\ reqs[s].cookie \in DOMAIN store
                 /\ reqs[s].cookie \in sessions
        /\ reqs[s].pc = "error"
              => /\ reqs[s].cookie = Null /\ reqs[s].status = Null
                 /\ \E n \in 0..Len(CallbackSteps) :
                      reqs[s].events = SubSeq(CallbackSteps, 1, n) \o <<"next">>

\* C10 witness: one callback has set its cookie, another failed at the save.
C10_Witness ==
    \E s, t \in Slots :
        /\ IsCallback(s) /\ reqs[s].pc = "done" /\ reqs[s].cookie \in DOMAIN store
        /\ IsCallback(t) /\ reqs[t].pc = "error"
        /\ reqs[t].events = SubSeq(CallbackSteps, 1, 4) \o <<"next">>

====
